---- MODULE Spec2Model ----
(***************************************************************************)
(* SonicSync: the search-and-fetch pipeline.                               *)
(*                                                                         *)
(*   Spec        one track of download_playlist (app.py): the search       *)
(*               outcome, the best match, then download_song with its      *)
(*               retry loop, validate_download_link and _download_file     *)
(*               (services/download_service.py) over a download folder.    *)
(*   SpecLink    one iteration of download_song's loop over the links, in  *)
(*               isolation, with the responses it got kept in the state.   *)
(*   SpecSearch  search_masstamilan (services/scraper_service.py): the     *)
(*               four-stage cascade, the filter and the cap.               *)
(*                                                                         *)
(* The network is the environment: every response (probe, transfer, page,  *)
(* search stage) is drawn when the code asks for it.                       *)
(***************************************************************************)
EXTENDS Integers, Sequences, FiniteSets, TLC

\* ------------------------------------------------------------ constants

max_retries == 3
KiB == 1024
chunk_size == 8192
min_song_size == 1024 * 1024
max_file_size == 100 * 1024 * 1024
supported_formats == {".mp3", ".m4a", ".wav", ".flac", ".aac"}

\* headers.get('content-length'): the header is absent (None), or present
\* and not a number (int() raises ValueError); otherwise its value.
NoLength == -1
BadLength == -2

\* ---------------------------------------------------------------- bounds

MaxLinks == 3

\* ------------------------------------------------------- the environment

\* A link URL, by what the code reads of it: whether it starts with "http",
\* whether one of supported_formats occurs in it, and its path suffix
\* (os.path.splitext of the URL path); and whether the URL string ends in
\* one of supported_formats, which the code does not read.
Mp3Url == [http |-> TRUE, fmt |-> TRUE, suffix |-> ".mp3", ends |-> TRUE]
M4aUrl == [http |-> TRUE, fmt |-> TRUE, suffix |-> ".m4a", ends |-> TRUE]
PlainUrl == [http |-> TRUE, fmt |-> FALSE, suffix |-> "", ends |-> FALSE]
\* A root-relative link with a query string, such as /download/42.mp3?dl=1:
\* get_download_links keeps it for its "download" (lines 261, 283).
QueryUrl == [http |-> TRUE, fmt |-> TRUE, suffix |-> ".mp3", ends |-> FALSE]

\* get_download_links keeps absolute links ending in .mp3 and root-relative
\* links (joined to the page URL) that end in .mp3 or contain "download",
\* such as /download/42 and /download/42.m4a.
StaticUrls == {Mp3Url, M4aUrl, PlainUrl}
\* get_download_links_selenium keeps only URLs ending in .mp3.
SeleniumUrls == {Mp3Url}
\* The links of one iteration on its own. In download_song QueryUrl goes
\* the way of Mp3Url, which has the same fmt and suffix.
LinkUrls == StaticUrls \cup SeleniumUrls \cup {QueryUrl}

RECURSIVE SeqsUpTo(_, _)
SeqsUpTo(S, n) ==
    IF n = 0 THEN {<<>>}
    ELSE LET shorter == SeqsUpTo(S, n - 1)
         IN  shorter \cup {Append(s, x) : s \in {t \in shorter : Len(t) = n - 1}, x \in S}

\* Content types a server declares, and the words the code looks for in them.
ContentTypes == {"audio/mpeg", "audio/mp4", "video/mp4", "text/html"}
Words ==
    [ct \in ContentTypes |->
        CASE ct = "audio/mpeg" -> {"audio", "mpeg", "audio/mpeg"}
          [] ct = "audio/mp4"  -> {"audio", "mp4", "audio/mp4"}
          [] ct = "video/mp4"  -> {"mp4"}
          [] ct = "text/html"  -> {}]
Contains(ct, word) == word \in Words[ct]

\* Declared lengths: absent, malformed, and both sides of the two limits of
\* validate_download_link.
DeclaredLengths ==
    {NoLength, BadLength, 500 * KiB, min_song_size - 1, min_song_size, 50 * KiB * KiB,
     max_file_size, max_file_size + 1}
BodyLengths ==
    {KiB - 1, KiB, KiB + 1, max_file_size, max_file_size + 1}

\* A HEAD response: the request raised (err), or a status with headers.
HeadError == [err |-> TRUE, status |-> 0, ctype |-> "text/html", clen |-> NoLength]
HeadResponses ==
    {HeadError, [err |-> FALSE, status |-> 404, ctype |-> "text/html", clen |-> NoLength]}
    \cup [err : {FALSE}, status : {200}, ctype : ContentTypes, clen : DeclaredLengths]

\* A GET response: get() or raise_for_status() raised (err); otherwise the
\* headers, the length of the body, and raiseAt: the number of bytes
\* iter_content delivers before it raises (NoLength: it never raises).
GetError == [err |-> TRUE, ctype |-> "text/html", clen |-> NoLength, body |-> 0, raiseAt |-> NoLength]
GetResponses ==
    {GetError} \cup
    {g \in [err : {FALSE}, ctype : ContentTypes \ {"video/mp4"},
            clen : DeclaredLengths \ {500 * KiB, min_song_size, 50 * KiB * KiB, max_file_size},
            body : BodyLengths, raiseAt : {NoLength, 0, chunk_size}] :
        g.raiseAt < g.body}

\* ------------------------------------------------------------------ state

VARIABLES
    pc,          \* position of the track's processing
    attempt,     \* download_song: the loop variable
    started,     \* number of loop iterations of download_song begun
    links,       \* download_links of the current attempt
    i,           \* 1-based position in links of the next link to try
    result,      \* "none", or what the track ended with: "success" / "failure"
    ret,         \* the return site that ended the track
    files,       \* the download folder: file name extension -> file
    last,        \* what the last link iteration did
    noLinks,     \* attempts in which both extractors returned no link
    unverified,  \* transfers of the current attempt that failed verification
    searches,    \* calls of search_masstamilan for the track
    extraction   \* the extractors called by the attempt under way or by the one that returned

dvars == <<pc, attempt, started, links, i, result, ret, files, last, noLinks, unverified,
           searches, extraction>>

VARIABLES
    lk,          \* one link iteration: its link, the responses and its result
    folder       \* the download folder of that iteration

lvars == <<lk, folder>>

VARIABLES
    spc,             \* position in search_masstamilan
    query,           \* cleaned_query, as its list of words
    search_results,  \* the raw hits collected so far
    log,             \* the stages called so far, with the number of hits of each
    searched,        \* the variations searched for so far
    lastCall,        \* the last stage called: its query, whether its request failed
    wire,            \* the sleeps and the requests of the direct searches so far, in order
    output           \* what search_masstamilan returned

svars == <<spc, query, search_results, log, searched, lastCall, wire, output>>

VARIABLES
    bpc,                   \* position in the batch
    song_list,             \* the number of tracks of the batch
    outcomes,              \* what the processing of each track so far ended with
    successful_downloads,  \* the tracks counted as successful, by position
    failed_downloads,      \* the tracks counted as failed, by position
    report                 \* the tallies returned

bvars == <<bpc, song_list, outcomes, successful_downloads, failed_downloads, report>>

VARIABLES
    page,          \* a song page: its anchors, audio elements and script URLs
    unique_links   \* what get_download_links returned for it

evars == <<page, unique_links>>

VARIABLES
    filename,       \* the argument of sanitize_filename
    safe_filename   \* what it returned

nvars == <<filename, safe_filename>>

VARIABLES
    calls,         \* the calls of _download_file to name a file for: filename, url, content type
    destinations   \* the names of the files of the calls made so far

tvars == <<calls, destinations>>

VARIABLES
    matching,    \* a call of get_best_match: the model, the query, the candidates
    best_match   \* what it returned

mvars == <<matching, best_match>>

VARIABLES
    clock,      \* the wall clock, in seconds
    requests,   \* the download requests being handled, each with its position and folder
    disk        \* the files under downloads/, by folder: the requests that wrote them

pvars == <<clock, requests, disk>>

VARIABLES
    browser,   \* a call of a Selenium function: its position and what happens in it
    drivers    \* the drivers created by the call: open or quit

wvars == <<browser, drivers>>

NoFile == [size |-> 0, how |-> "none"]
NoLast == [idx |-> 0, how |-> "none", path |-> "", probeFailed |-> FALSE, valid |-> FALSE]
NoExtraction == [ran |-> FALSE, static |-> FALSE, selenium |-> FALSE]

\* ----------------------------------------------- validate_download_link

\* 'audio' in content_type or 'mpeg' in ... or 'mp3' in ... or 'mp4' in ...
IsAudioProbe(ct) ==
    Contains(ct, "audio") \/ Contains(ct, "mpeg") \/ Contains(ct, "mp3") \/ Contains(ct, "mp4")

\* Whether validate_download_link sends the HEAD probe at all.
Probes(url) == ~url.fmt

\* validate_download_link without the lower size limit of line 129.
validate_download_link_NoLowerLimit(url, probe) ==
    IF url.fmt THEN TRUE
    ELSE IF probe.err THEN FALSE
    ELSE IF probe.status # 200 THEN FALSE
    ELSE IF probe.clen = BadLength THEN FALSE
    ELSE IF probe.clen # NoLength /\ probe.clen > max_file_size THEN FALSE
    ELSE IsAudioProbe(probe.ctype)

\* validate_download_link with `>=` for `>` at line 129.
validate_download_link_ExclusiveLimit(url, probe) ==
    IF url.fmt THEN TRUE
    ELSE IF probe.err THEN FALSE
    ELSE IF probe.status # 200 THEN FALSE
    ELSE IF probe.clen = BadLength THEN FALSE
    ELSE IF probe.clen # NoLength
            /\ (probe.clen < min_song_size \/ probe.clen >= max_file_size) THEN FALSE
    ELSE IsAudioProbe(probe.ctype)

\* validate_download_link with `return True` in its except clause.
validate_download_link_ErrorAccepts(url, probe) ==
    IF url.fmt THEN TRUE
    ELSE IF probe.err THEN TRUE
    ELSE IF probe.status # 200 THEN FALSE
    ELSE IF probe.clen = BadLength THEN TRUE
    ELSE IF probe.clen # NoLength
            /\ (probe.clen < min_song_size \/ probe.clen > max_file_size) THEN FALSE
    ELSE IsAudioProbe(probe.ctype)

\* Whether the try block of validate_download_link raises: the HEAD request
\* at line 113, or int(content_length) at line 127.
ProbeFailed(url, probe) ==
    Probes(url) /\ (probe.err \/ (probe.status = 200 /\ probe.clen = BadLength))

validate_download_link(url, probe) ==
    IF url.fmt THEN TRUE
    ELSE IF probe.err THEN FALSE
    ELSE IF probe.status # 200 THEN FALSE
    ELSE IF probe.clen = BadLength THEN FALSE
    ELSE IF probe.clen # NoLength
            /\ (probe.clen < min_song_size \/ probe.clen > max_file_size) THEN FALSE
    ELSE IsAudioProbe(probe.ctype)

\* ------------------------------------------------------- _download_file

\* Lines 146-155: the content-type check of a URL without a format in it.
LooksLikeAudio(url, head) ==
    \/ url.fmt
    \/ head.err
    \/ Contains(head.ctype, "audio") \/ Contains(head.ctype, "mpeg")

\* Lines 169-179: the extension.
Extension(url, ctype) ==
    IF Contains(ctype, "audio/mpeg") \/ Contains(ctype, "audio/mp3") THEN ".mp3"
    ELSE IF Contains(ctype, "audio/mp4") \/ Contains(ctype, "audio/m4a") THEN ".m4a"
    ELSE IF url.suffix \in supported_formats THEN url.suffix
    ELSE ".mp3"

Min(a, b) == IF a < b THEN a ELSE b

\* Lines 190-202, the loop over iter_content(chunk_size): after k chunks
\* Min(k * chunk_size, body) bytes are written. The loop ends when the
\* iterator raises (after raiseAt bytes), when the bytes written exceed
\* max_file_size (first at chunk max_file_size \div chunk_size + 1), or at
\* the end of the body. Gives how it ended and the bytes written by then.
StreamBody(body, raiseAt) ==
    LET over == Min(((max_file_size \div chunk_size) + 1) * chunk_size, body)
    IN  IF raiseAt # NoLength /\ raiseAt <= max_file_size
        THEN [how |-> "raised", written |-> raiseAt]
        ELSE IF body > max_file_size
        THEN [how |-> "exceeded", written |-> over]
        ELSE [how |-> "complete", written |-> body]

\* Line 205: os.path.getsize(file_path) > 1024.
Verified(size) == size > KiB

\* LeftBehind without the os.remove of line 200.
LeftBehind_KeepOversize(how, written) ==
    CASE how = "exceeded" -> [size |-> written, how |-> "exceeded"]
      [] how = "too_small" -> [size |-> 0, how |-> "none"]
      [] how = "raised" -> [size |-> written, how |-> "raised"]
      [] how = "ok" -> [size |-> written, how |-> "ok"]

\* What is left at file_path when the call returns, by how the call ended:
\* os.remove at line 200 (size limit) and at line 211 (not verified); the
\* except clause at line 214 removes nothing. NoFile: nothing is left.
LeftBehind(how, written) ==
    CASE how = "exceeded" -> NoFile
      [] how = "too_small" -> NoFile
      [] how = "raised" -> [size |-> written, how |-> "raised"]
      [] how = "ok" -> [size |-> written, how |-> "ok"]

\* _download_file(url, download_folder, filename) under the responses head
\* (line 149) and get (line 158): whether it returns True, how it ended,
\* the file it opened ("" when it opened none), the bytes it wrote.
NoTransfer(how) == [ok |-> FALSE, how |-> how, path |-> "", written |-> 0]

download_file(url, head, get) ==
    IF ~url.http THEN NoTransfer("bad_url")
    ELSE IF ~LooksLikeAudio(url, head) THEN NoTransfer("not_audio")
    ELSE IF get.err THEN NoTransfer("get_failed")
    ELSE IF get.clen = BadLength THEN NoTransfer("bad_length")
    ELSE IF get.clen # NoLength /\ get.clen > max_file_size THEN NoTransfer("declared_too_large")
    ELSE LET s == StreamBody(get.body, get.raiseAt)
             how == IF s.how = "complete"
                    THEN (IF Verified(s.written) THEN "ok" ELSE "too_small")
                    ELSE s.how
         IN  [ok |-> how = "ok", how |-> how,
              path |-> Extension(url, get.ctype), written |-> s.written]

\* The folder after the call: open(file_path, 'wb') replaces what was there.
FolderAfter(dir, r) ==
    IF r.path = "" THEN dir
    ELSE [dir EXCEPT ![r.path] = LeftBehind(r.how, r.written)]

\* --------------------------------- download_song, lines 76-91: one link

\* The body of the loop over download_links for one link, under the
\* responses to the probe of validate_download_link and to the HEAD and the
\* GET of _download_file: the link is rejected, or _download_file is called.
\* The body without the `continue` of line 83.
LinkRun_SkipsValidation(url, probe, head, get) ==
    LET r == download_file(url, head, get)
    IN  [valid |-> validate_download_link(url, probe), ok |-> r.ok, how |-> r.how,
         path |-> r.path, written |-> r.written, probeFailed |-> ProbeFailed(url, probe)]

LinkRun(url, probe, head, get) ==
    IF ~validate_download_link(url, probe)
    THEN [valid |-> FALSE, ok |-> FALSE, how |-> "invalid", path |-> "", written |-> 0,
          probeFailed |-> ProbeFailed(url, probe)]
    ELSE LET r == download_file(url, head, get)
         IN  [valid |-> TRUE, ok |-> r.ok, how |-> r.how, path |-> r.path,
              written |-> r.written, probeFailed |-> ProbeFailed(url, probe)]

\* The requests the body sends for a link; a request not sent has no response.
ProbeResponses(url) == IF Probes(url) THEN HeadResponses ELSE {HeadError}
HeadResponsesFor(url) == IF url.fmt THEN {HeadError} ELSE HeadResponses

\* Everything the body can do with a link, over all responses.
LinkOutcomes ==
    [url \in StaticUrls \cup SeleniumUrls |->
        {LinkRun(url, probe, head, get) :
            probe \in ProbeResponses(url), head \in HeadResponsesFor(url),
            get \in GetResponses}]

\* ------------------------------------------- download_playlist, one track

\* app.py 147-170: the search came back empty, or no best match, or the
\* best match is handed to download_song.
\* download_song called whatever the search gave.
AfterSearch_AlwaysDownloads(outcome) == "attempt"

\* app.py 150-170: where the track goes after the search.
AfterSearch(outcome) ==
    IF outcome \in {"no_results", "no_match"} THEN "done"
    ELSE IF outcome = "hit" THEN "attempt" ELSE "attempt_no_url"

StartTrack ==
    /\ pc = "idle"
    /\ searches' = searches + 1
    /\ \E outcome \in {"no_results", "no_match", "hit", "hit_without_url"} :
        /\ pc' = AfterSearch(outcome)
        /\ result' = IF outcome \in {"no_results", "no_match"} THEN "failure" ELSE "none"
        /\ ret' = CASE outcome = "no_results" -> "app:170"
                    [] outcome = "no_match" -> "app:167"
                    [] OTHER -> ret
    /\ UNCHANGED <<attempt, started, links, i, files, last, noLinks, unverified, extraction>>
    /\ UNCHANGED <<lvars, svars, bvars, evars, nvars, tvars, mvars, pvars, wvars>>

\* ----------------------------------------------------------- download_song

\* range(max_retries + 1): one iteration too many.
LoopContinues_OneMore(n) == n <= 3

\* Line 43: whether the loop has another iteration.
LoopContinues(n) == n < max_retries

\* Giving up after the first iteration without links.
RetriesAfterNoLinks_Never(n) == FALSE

\* Lines 68-73: after an iteration without links, whether another follows.
RetriesAfterNoLinks(n) == n < max_retries - 1

\* Lines 52-54: the hit carries no URL.
NoUrl ==
    /\ pc = "attempt_no_url"
    /\ started' = started + 1
    /\ pc' = "done" /\ result' = "failure" /\ ret' = "download_song:54"
    /\ UNCHANGED <<attempt, links, i, files, last, noLinks, unverified, searches, extraction>>
    /\ UNCHANGED <<lvars, svars, bvars, evars, nvars, tvars, mvars, pvars, wvars>>

\* Selenium called in every attempt.
NeedsSelenium_Always(static) == TRUE

\* Lines 63-66: `if not download_links:` before the Selenium fallback.
NeedsSelenium(static) == static = <<>>

\* download_song without the except clause of line 97.
Catches_Nothing == FALSE

\* Line 97: `except Exception`, around the whole body of the iteration.
Catches == TRUE

\* Lines 43-73 and 97-100: an iteration begins; the links are extracted,
\* by the static extractor and, when it gives none, by Selenium. The
\* iteration may raise outside the extractors' own try blocks: creating the
\* scraper (line 60), or driver.quit() in the finally clause of
\* get_download_links_selenium; that ends the iteration (line 97).
BeginAttempt ==
    /\ pc = "attempt"
    /\ LoopContinues(attempt)
    /\ started' = started + 1
    /\ \E raisedAt \in {"none", "scraper", "quit"}, static \in SeqsUpTo(StaticUrls, MaxLinks) :
       \E dynamic \in IF NeedsSelenium(static) /\ raisedAt = "none"
                       THEN SeqsUpTo(SeleniumUrls, MaxLinks) ELSE {<<>>} :
        LET found == IF static # <<>> THEN static ELSE dynamic
            raised == raisedAt # "none"
        IN  /\ raisedAt = "quit" => NeedsSelenium(static)
            /\ extraction' = IF raised \/ (found = <<>> /\ RetriesAfterNoLinks(attempt))
                              THEN NoExtraction
                              ELSE [ran |-> TRUE, static |-> static # <<>>,
                                    selenium |-> NeedsSelenium(static)]
            /\ IF raised
               THEN IF Catches
                    THEN /\ attempt' = attempt + 1
                         /\ UNCHANGED <<pc, links, i, result, ret, noLinks, unverified>>
                    ELSE /\ pc' = "done" /\ result' = "raised" /\ ret' = "download_song:raise"
                         /\ UNCHANGED <<attempt, links, i, noLinks, unverified>>
               ELSE IF found = <<>>
               THEN /\ noLinks' = noLinks + 1
                    /\ IF RetriesAfterNoLinks(attempt)
                       THEN /\ attempt' = attempt + 1
                            /\ UNCHANGED <<pc, result, ret>>
                       ELSE /\ pc' = "done" /\ result' = "failure"
                            /\ ret' = "download_song:73"
                            /\ UNCHANGED attempt
                    /\ UNCHANGED <<links, i, unverified>>
               ELSE /\ links' = found /\ i' = 1 /\ pc' = "links"
                    /\ unverified' = 0
                    /\ UNCHANGED <<attempt, result, ret, noLinks>>
    /\ UNCHANGED <<files, last, searches>>
    /\ UNCHANGED <<lvars, svars, bvars, evars, nvars, tvars, mvars, pvars, wvars>>

\* The loop without the return of line 87: it goes on after a success.
AfterLink_NoStop(ok, n) == n + 1

\* Lines 85-91: after a link, the position of the next one to try; 0 when
\* download_song returns True.
AfterLink(ok, n) == IF ok THEN 0 ELSE n + 1

\* Lines 76-91: one iteration of the loop over download_links.
TryLink ==
    /\ pc = "links"
    /\ i <= Len(links)
    /\ \E r \in LinkOutcomes[links[i]] :
        /\ files' = FolderAfter(files, r)
        /\ last' = [idx |-> i, how |-> r.how, path |-> r.path, probeFailed |-> r.probeFailed,
                    valid |-> r.valid]
        /\ unverified' = IF r.how = "too_small" THEN unverified + 1 ELSE unverified
        /\ IF AfterLink(r.ok, i) = 0
           THEN /\ pc' = "done" /\ result' = "success"
                /\ ret' = "download_song:87"
                /\ UNCHANGED i
           ELSE /\ i' = AfterLink(r.ok, i)
                /\ UNCHANGED <<pc, result, ret>>
    /\ UNCHANGED <<attempt, started, links, noLinks, searches, extraction>>
    /\ UNCHANGED <<lvars, svars, bvars, evars, nvars, tvars, mvars, pvars, wvars>>

\* Lines 93-95: every link failed; the next iteration.
LinksFailed ==
    /\ pc = "links"
    /\ i > Len(links)
    /\ attempt' = attempt + 1
    /\ pc' = "attempt"
    /\ extraction' = NoExtraction
    /\ UNCHANGED <<started, links, i, result, ret, files, last, noLinks, unverified,
                   searches>>
    /\ UNCHANGED <<lvars, svars, bvars, evars, nvars, tvars, mvars, pvars, wvars>>

\* Lines 102-103: the loop is over.
Exhausted ==
    /\ pc = "attempt"
    /\ ~LoopContinues(attempt)
    /\ pc' = "done" /\ result' = "failure" /\ ret' = "download_song:103"
    /\ UNCHANGED <<attempt, started, links, i, files, last, noLinks, unverified,
                   searches, extraction>>
    /\ UNCHANGED <<lvars, svars, bvars, evars, nvars, tvars, mvars, pvars, wvars>>

DInit ==
    /\ pc = "idle" /\ attempt = 0 /\ started = 0
    /\ links = <<>> /\ i = 1
    /\ result = "none" /\ ret = "none"
    /\ files = [e \in supported_formats |-> NoFile]
    /\ last = NoLast
    /\ noLinks = 0 /\ unverified = 0
    /\ searches = 0 /\ extraction = NoExtraction

\* ------------------------------------------------ one link, in isolation

NoLink == [stage |-> "idle", url |-> PlainUrl, found |-> NoFile, probeLen |-> NoLength, getLen |-> NoLength,
           body |-> 0, valid |-> FALSE, ok |-> FALSE, how |-> "none", path |-> "",
           written |-> 0,
           probed |-> FALSE, probeErr |-> FALSE, probeStatus |-> 0, probeCtype |-> "text/html"]

\* The folder the iteration finds: empty, or holding an earlier file.
EarlierFiles == {NoFile, [size |-> chunk_size, how |-> "raised"], [size |-> KiB + 1, how |-> "ok"]}

LIdle == lk = NoLink /\ folder = [e \in supported_formats |-> NoFile]

LInit ==
    \E url \in LinkUrls, f \in EarlierFiles :
        /\ lk = [NoLink EXCEPT !.stage = "new", !.url = url, !.found = f]
        /\ folder = [e \in supported_formats |-> IF e = ".mp3" THEN f ELSE NoFile]

\* Lines 76-91 for the link lk.url.
LinkIteration ==
    /\ lk.stage = "new"
    /\ \E probe \in ProbeResponses(lk.url), head \in HeadResponsesFor(lk.url),
          get \in GetResponses :
        LET r == LinkRun(lk.url, probe, head, get)
        IN  /\ lk' = [stage |-> "returned", url |-> lk.url, found |-> lk.found,
                      probeLen |-> IF Probes(lk.url) /\ ~probe.err THEN probe.clen ELSE NoLength,
                      getLen |-> IF r.how \in {"invalid", "bad_url", "not_audio", "get_failed"}
                                 THEN NoLength ELSE get.clen,
                      body |-> IF r.path = "" THEN 0 ELSE get.body,
                      valid |-> r.valid, ok |-> r.ok, how |-> r.how, path |-> r.path,
                      written |-> r.written,
                      probed |-> Probes(lk.url),
                      probeErr |-> Probes(lk.url) /\ probe.err,
                      probeStatus |-> IF Probes(lk.url) THEN probe.status ELSE 0,
                      probeCtype |-> IF Probes(lk.url) THEN probe.ctype ELSE "text/html"]
            /\ folder' = FolderAfter(folder, r)
    /\ UNCHANGED <<dvars, svars, bvars, evars, nvars, tvars, mvars, pvars, wvars>>

\* ------------------------------------------------------ search_masstamilan

\* ---- text. A string is the sequence of its atoms: words and separators.

\* The words of the cleaned queries, and what str.replace('and', '&') and
\* str.replace('&', 'and') make of each atom.
QueryWords == {"a", "b", "roja", "song", "and", "sand"}
AtomLen ==
    [x \in QueryWords \cup {" ", "+", "&", "s&"} |->
        CASE x \in {"a", "b", " ", "+", "&"} -> 1
          [] x = "s&" -> 2
          [] x = "and" -> 3
          [] OTHER -> 4]
AndToAmp(x) == CASE x = "and" -> "&" [] x = "sand" -> "s&" [] OTHER -> x
AmpToAnd(x) == CASE x = "&" -> "and" [] x = "s&" -> "sand" [] OTHER -> x

RECURSIVE StrLen(_)
StrLen(str) == IF str = <<>> THEN 0 ELSE AtomLen[Head(str)] + StrLen(Tail(str))

\* sep.join(words)
RECURSIVE Join(_, _)
Join(words, sep) ==
    IF Len(words) <= 1 THEN words
    ELSE <<Head(words), sep>> \o Join(Tail(words), sep)

\* The cleaned queries searched for: clean_search_query gives lower-case
\* words joined by single spaces, possibly none.
Queries ==
    {<<>>, <<"roja">>, <<"roja", "song">>, <<"a", "b", "song">>, <<"sand", "and", "song">>}

\* ---- _generate_query_variations

max_variations == 5

Without(words, k) == SubSeq(words, 1, k - 1) \o SubSeq(words, k + 1, Len(words))
Prefix(words, n) == SubSeq(words, 1, IF n < Len(words) THEN n ELSE Len(words))

\* Lines 109-127: the candidates appended to the list. Joined words carry
\* no outer blanks, so strip() changes nothing.
VariationCandidates(words) ==
    LET text == Join(words, " ")
        drops == IF Len(words) > 2
                 THEN {Join(Without(words, k), " ") : k \in 1..Len(words)}
                 ELSE {}
        prefixes == IF Len(words) > 2
                    THEN {Join(Prefix(words, 2), " "), Join(Prefix(words, 3), " ")}
                    ELSE {}
    IN  {v \in drops : StrLen(v) > 3} \cup prefixes
        \cup {[k \in DOMAIN text |-> IF text[k] = " " THEN "+" ELSE text[k]],
              [k \in DOMAIN text |-> AmpToAnd(text[k])],
              [k \in DOMAIN text |-> AndToAmp(text[k])]}

\* Lines 109-127: the list `variations` in the order of its appends, before
\* line 129 makes a set of it.
VariationsList(words) ==
    LET text == Join(words, " ")
        drops == IF Len(words) > 2
                 THEN SelectSeq([k \in 1..Len(words) |-> Join(Without(words, k), " ")],
                                LAMBDA v : StrLen(v) > 3)
                 ELSE <<>>
        prefixes == IF Len(words) > 2
                    THEN <<Join(Prefix(words, 2), " "), Join(Prefix(words, 3), " ")>>
                    ELSE <<>>
    IN  drops \o prefixes
        \o <<[k \in DOMAIN text |-> IF text[k] = " " THEN "+" ELSE text[k]],
             [k \in DOMAIN text |-> AmpToAnd(text[k])],
             [k \in DOMAIN text |-> AndToAmp(text[k])]>>

\* Line 129 without the slice.
VariationCount_All(words) == Cardinality(VariationCandidates(words))

\* Line 129: list(set(variations))[:5]. The order of a set of strings is
\* not fixed by the language, so the list is any enumeration of the
\* candidates, cut to 5: how many there are to search.
VariationCount(words) ==
    LET n == Cardinality(VariationCandidates(words))
    IN  IF n < max_variations THEN n ELSE max_variations

\* ---- the pages

MaxHits == 2

Hrefs == {"/songs/a", "/songs/b", "/about"}
\* any(keyword in href.lower() for keyword in ['/songs/', '/movie/', '/album/'])
IsCatalog(href) == href \in {"/songs/a", "/songs/b"}

\* Link texts, stripped, with the lower-cased title and its length.
Titles == {"Roja", "Roja Song", "ROJA SONG", "Vaadi Pulla"}

\* The hits of a long result page: "track 1" at /songs/1, "track 2" at
\* /songs/2, ...: pairwise distinct, the titles in lower case already.
MaxTracks == 22
TrackTitle(k) == "track " \o ToString(k)
TrackUrl(k) == "/songs/" \o ToString(k)
TrackTitles == {TrackTitle(k) : k \in 1..MaxTracks}

Lower(title) ==
    CASE title = "Roja" -> "roja"
      [] title \in {"Roja Song", "ROJA SONG"} -> "roja song"
      [] title = "Vaadi Pulla" -> "vaadi pulla"
      [] title = "Jeans" -> "jeans"
      [] title \in TrackTitles -> title
TitleLen(title) ==
    CASE title = "Roja" -> 4
      [] title \in {"Roja Song", "ROJA SONG"} -> 9
      [] title = "Vaadi Pulla" -> 11
      [] title = "Jeans" -> 5
      [] title \in TrackTitles -> Len(title)
\* any(word in title for word in ['advertisement', 'ad', 'promo']) of the
\* lower-cased title: "vaadi pulla" contains "ad".
HasMarker(lowered) == lowered = "vaadi pulla"

Anchors == [url : Hrefs, title : Titles]

\* What a search request gives: it raised (a transport error, a timeout, an
\* HTTP error status), or a page with the anchors the selectors match.
SearchResponses == [err : BOOLEAN, anchors : SeqsUpTo(Anchors, MaxHits)]

\* What Selenium gives: no driver, or a response as above.
SeleniumResponses == [driver : BOOLEAN, err : BOOLEAN, anchors : SeqsUpTo(Anchors, MaxHits)]

RECURSIVE SelectSeq2(_, _)
SelectSeq2(seq, keep) ==
    IF seq = <<>> THEN <<>>
    ELSE (IF Head(seq) \in keep THEN <<Head(seq)>> ELSE <<>>) \o SelectSeq2(Tail(seq), keep)

\* min_title == 5: len(title) > 5 at lines 192 and 229, len(title) < 5 at 146.
min_title == 5

\* ---- the stages. Each gives the hits it returns and whether it raised.

\* _search_masstamilan_direct without its except clause.
search_direct_NoCatch(resp) ==
    [raised |-> resp.err,
     hits |-> SelectSeq2(resp.anchors,
                         {a \in Anchors : IsCatalog(a.url) /\ TitleLen(a.title) > 5})]

\* _search_masstamilan_direct, lines 157-204.
search_direct(resp) ==
    IF resp.err THEN [raised |-> FALSE, hits |-> <<>>]
    ELSE [raised |-> FALSE,
          hits |-> SelectSeq2(resp.anchors,
                     {a \in Anchors : IsCatalog(a.url) /\ TitleLen(a.title) > min_title})]

\* _search_masstamilan_selenium, lines 208-245: the CSS selector matches
\* the catalog links only.
search_selenium(resp) ==
    IF ~resp.driver THEN [raised |-> FALSE, hits |-> <<>>]
    ELSE IF resp.err THEN [raised |-> FALSE, hits |-> <<>>]
    ELSE [raised |-> FALSE,
          hits |-> SelectSeq2(resp.anchors,
                     {a \in Anchors : IsCatalog(a.url) /\ TitleLen(a.title) > min_title})]

\* ---- _filter_and_deduplicate_results, lines 131-153

\* IsJunk with `<=` for `<` at line 146.
IsJunk_Strict(lowered, len) == len <= min_title \/ HasMarker(lowered)

IsJunk(lowered, len) == len < min_title \/ HasMarker(lowered)

\* FilterFrom without seen_titles.
RECURSIVE FilterFrom_UrlOnly(_, _, _)
FilterFrom_UrlOnly(results, seen_urls, seen_titles) ==
    IF results = <<>> THEN <<>>
    ELSE LET r == Head(results)
         IN  IF r.url \in seen_urls \/ IsJunk(Lower(r.title), TitleLen(r.title))
             THEN FilterFrom_UrlOnly(Tail(results), seen_urls, seen_titles)
             ELSE <<r>> \o FilterFrom_UrlOnly(Tail(results), seen_urls \cup {r.url}, seen_titles)

RECURSIVE FilterFrom(_, _, _)
FilterFrom(results, seen_urls, seen_titles) ==
    IF results = <<>> THEN <<>>
    ELSE LET r == Head(results)
             title == Lower(r.title)
         IN  IF r.url \in seen_urls \/ title \in seen_titles
             THEN FilterFrom(Tail(results), seen_urls, seen_titles)
             ELSE IF IsJunk(title, TitleLen(r.title))
             THEN FilterFrom(Tail(results), seen_urls, seen_titles)
             ELSE <<r>> \o FilterFrom(Tail(results), seen_urls \cup {r.url},
                                      seen_titles \cup {title})

\* The filter without lines 142-143.
filter_and_deduplicate_results_NoDedup(results) ==
    SelectSeq(results, LAMBDA r : ~IsJunk(Lower(r.title), TitleLen(r.title)))

filter_and_deduplicate_results(results) == FilterFrom(results, {}, {})

\* Line 101: unique_results[:20].
max_results == 20
\* Line 101 without the slice.
Top_All(results) == results
Top(results) == SubSeq(results, 1, IF Len(results) < max_results THEN Len(results) ELSE max_results)

\* ---- the cascade, lines 62-105

\* The direct search without the sleep of line 165.
direct_steps_NoDelay == <<"get">>

\* _search_masstamilan_direct, lines 165-167: time.sleep, then session.get.
direct_steps == <<"sleep", "get">>

\* _search_masstamilan_selenium makes no direct-search request.
selenium_steps == <<>>

\* `if search_results:` with the later stages unconditional.
NeedsFallback_Always(results) == TRUE

\* Lines 76, 82, 88: `if not search_results`.
NeedsFallback(results) == results = <<>>

\* A stage was called with query q and its request failed or not: what the
\* stage gave joins search_results, unless the stage raised, which the except clause at line 103 turns into an empty return.
StageDone(stage, q, failed, r, next, steps) ==
    /\ log' = Append(log, [stage |-> stage, n |-> Len(r.hits)])
    /\ wire' = wire \o steps
    /\ lastCall' = [stage |-> stage, query |-> q, failed |-> failed, raised |-> r.raised]
    /\ searched' = IF stage = "variation" THEN searched \cup {q} ELSE searched
    /\ IF r.raised
       THEN /\ spc' = "done" /\ output' = <<>>
            /\ UNCHANGED search_results
       ELSE /\ search_results' = search_results \o r.hits
            /\ spc' = IF NeedsFallback(search_results') THEN next ELSE "filter"
            /\ UNCHANGED output
    /\ UNCHANGED <<query, dvars, lvars, bvars, evars, nvars, tvars, mvars, pvars, wvars>>

\* Lines 71-73.
Primary ==
    /\ spc = "primary"
    /\ \E resp \in SearchResponses :
         StageDone("primary", Join(query, " "), resp.err, search_direct(resp), "backup",
                   direct_steps)

\* Lines 75-79.
Backup ==
    /\ spc = "backup"
    /\ \E resp \in SearchResponses :
         StageDone("backup", Join(query, " "), resp.err, search_direct(resp), "selenium",
                   direct_steps)

\* Lines 81-85.
Selenium ==
    /\ spc = "selenium"
    /\ \E resp \in SeleniumResponses :
         StageDone("selenium", Join(query, " "), ~resp.driver \/ resp.err,
                   search_selenium(resp), "variations", selenium_steps)

\* Lines 87-95: the next variation of the list is searched for; the loop
\* ends after the last one, or at the break.
Variation ==
    /\ spc = "variations"
    /\ IF Cardinality(searched) < VariationCount(query)
       THEN \E v \in VariationCandidates(query) \ searched, resp \in SearchResponses :
              StageDone("variation", v, resp.err, search_direct(resp), "variations",
                        direct_steps)
       ELSE /\ spc' = "filter"
            /\ UNCHANGED <<query, search_results, log, searched, lastCall, wire, output, dvars, lvars, bvars, evars, nvars, tvars, mvars, pvars, wvars>>

\* Lines 97-101.
Finish ==
    /\ spc = "filter"
    /\ output' = Top(filter_and_deduplicate_results(search_results))
    /\ spc' = "done"
    /\ UNCHANGED <<query, search_results, log, searched, lastCall, wire, dvars, lvars, bvars, evars, nvars, tvars, mvars, pvars, wvars>>

NoCall == [stage |-> "none", query |-> <<>>, failed |-> FALSE, raised |-> FALSE]

SIdle ==
    /\ spc = "idle" /\ query = <<>> /\ search_results = <<>> /\ log = <<>>
    /\ searched = {} /\ lastCall = NoCall /\ wire = <<>> /\ output = <<>>

SInit ==
    /\ spc = "primary" /\ query \in Queries
    /\ search_results = <<>> /\ log = <<>>
    /\ searched = {} /\ lastCall = NoCall /\ wire = <<>> /\ output = <<>>

\* ---- _filter_and_deduplicate_results and the cut of line 101, on their own

MaxRaw == 3

\* Raw hits: both catalog pages under every title, a title of exactly five
\* characters among them.
FilterHits == [url : {"/songs/a", "/songs/b"}, title : Titles \cup {"Jeans"}]
TrackHits(n) == [k \in 1..n |-> [url |-> TrackUrl(k), title |-> TrackTitle(k)]]

\* The lists of raw hits (search_results at line 98): every short list, and
\* long lists of distinct hits, from one under max_results, after at most
\* one other hit.
RawLists ==
    SeqsUpTo(FilterHits, MaxRaw)
    \cup {pre \o TrackHits(n) : pre \in SeqsUpTo(FilterHits, 1), n \in (max_results - 1)..MaxTracks}

FInit ==
    /\ spc = "raw" /\ search_results \in RawLists /\ output = <<>>
    /\ query = <<>> /\ log = <<>> /\ searched = {} /\ lastCall = NoCall /\ wire = <<>>

\* Line 98: unique_results = self._filter_and_deduplicate_results(search_results).
ApplyFilter ==
    /\ spc = "raw"
    /\ output' = filter_and_deduplicate_results(search_results)
    /\ spc' = "once"
    /\ UNCHANGED <<query, search_results, log, searched, lastCall, wire, dvars, lvars, bvars, evars, nvars, tvars, mvars, pvars, wvars>>

\* The filter applied to what it returned.
ApplyAgain ==
    /\ spc = "once"
    /\ output' = filter_and_deduplicate_results(output)
    /\ spc' = "twice"
    /\ UNCHANGED <<query, search_results, log, searched, lastCall, wire, dvars, lvars, bvars, evars, nvars, tvars, mvars, pvars, wvars>>

\* Line 101: return unique_results[:20].
Cut ==
    /\ spc = "once"
    /\ output' = Top(output)
    /\ spc' = "cut"
    /\ UNCHANGED <<query, search_results, log, searched, lastCall, wire, dvars, lvars, bvars, evars, nvars, tvars, mvars, pvars, wvars>>

\* ------------------------------------------------- download_multiple_songs

MaxBatch == 4

\* What the body of the loop over the tracks ends with: download_song
\* returned True, or False, or the body raised (progress_callback at line
\* 231, song_info.get at line 237).
TrackOutcomes == {"success", "failure", "exception"}

\* The tallies without the append of line 246.
Tally_DropsException(outcome) ==
    CASE outcome = "success" -> "successful" [] outcome = "failure" -> "failed" [] OTHER -> "none"

\* Lines 239-246: the list a track is appended to.
Tally(outcome) == IF outcome = "success" THEN "successful" ELSE "failed"

\* Line 252: len(successful_downloads) / total_songs if total_songs > 0 else 0,
\* as a fraction.
success_rate(successful, total) ==
    IF total > 0 THEN [num |-> successful, den |-> total] ELSE [num |-> 0, den |-> 1]

NoReport == [successful |-> 0, failed |-> 0, total |-> 0, success_rate |-> [num |-> 0, den |-> 1]]

BIdle ==
    /\ bpc = "idle" /\ song_list = 0 /\ outcomes = <<>>
    /\ successful_downloads = {} /\ failed_downloads = {} /\ report = NoReport

BInit ==
    /\ bpc = "start" /\ song_list \in 0..MaxBatch /\ outcomes = <<>>
    /\ successful_downloads = {} /\ failed_downloads = {} /\ report = NoReport

\* Lines 220-226, and 255-263 when os.makedirs raises: every track failed.
BeginBatch ==
    /\ bpc = "start"
    /\ \E raised \in BOOLEAN :
         IF raised
         THEN /\ failed_downloads' = 1..song_list
              /\ report' = [successful |-> 0, failed |-> song_list, total |-> song_list,
                            success_rate |-> [num |-> 0, den |-> 1]]
              /\ bpc' = "done"
         ELSE /\ bpc' = "loop"
              /\ UNCHANGED <<failed_downloads, report>>
    /\ UNCHANGED <<song_list, outcomes, successful_downloads>>
    /\ UNCHANGED <<dvars, lvars, svars, evars, nvars, tvars, mvars, pvars, wvars>>

\* Lines 228-246: the next track.
ProcessTrack ==
    /\ bpc = "loop"
    /\ Len(outcomes) < song_list
    /\ \E outcome \in TrackOutcomes :
        LET k == Len(outcomes) + 1
        IN  /\ outcomes' = Append(outcomes, outcome)
            /\ successful_downloads' = IF Tally(outcome) = "successful"
                                       THEN successful_downloads \cup {k}
                                       ELSE successful_downloads
            /\ failed_downloads' = IF Tally(outcome) = "failed"
                                   THEN failed_downloads \cup {k}
                                   ELSE failed_downloads
    /\ UNCHANGED <<bpc, song_list, report>>
    /\ UNCHANGED <<dvars, lvars, svars, evars, nvars, tvars, mvars, pvars, wvars>>

\* Lines 248-253: the tallies.
FinishBatch ==
    /\ bpc = "loop"
    /\ Len(outcomes) = song_list
    /\ report' = [successful |-> Cardinality(successful_downloads),
                  failed |-> Cardinality(failed_downloads),
                  total |-> song_list,
                  success_rate |-> success_rate(Cardinality(successful_downloads), song_list)]
    /\ bpc' = "done"
    /\ UNCHANGED <<song_list, outcomes, successful_downloads, failed_downloads>>
    /\ UNCHANGED <<dvars, lvars, svars, evars, nvars, tvars, mvars, pvars, wvars>>

\* ------------------------------------------------------ get_download_links

MaxAnchors == 3

\* The page whose links are extracted.
song_page_url == "https://masstamilan.dev/songs/roja"
site == "https://masstamilan.dev"

\* Targets of a page: absolute, root-relative and document-relative, with
\* and without ".mp3" at the end and "download" inside.
Targets ==
    {"https://cdn.example/a.mp3", "https://cdn.example/download/42",
     "https://cdn.example/b.m4a", "https://masstamilan.dev/f/x.mp3",
     "/f/x.mp3", "/download/42", "f/x.mp3", "/about"}

\* href.endswith('.mp3')
EndsMp3(t) ==
    t \in {"https://cdn.example/a.mp3", "https://masstamilan.dev/f/x.mp3", "/f/x.mp3", "f/x.mp3"}
\* 'download' in href.lower()
HasDownload(t) == t \in {"https://cdn.example/download/42", "/download/42"}
\* link.startswith('http')
StartsHttp(t) ==
    t \in {"https://cdn.example/a.mp3", "https://cdn.example/download/42",
           "https://cdn.example/b.m4a", "https://masstamilan.dev/f/x.mp3"}
\* link.startswith('/')
StartsSlash(t) == t \in {"/f/x.mp3", "/download/42", "/about"}

\* urljoin(song_page_url, link)
urljoin(t) ==
    IF StartsHttp(t) THEN t
    ELSE IF StartsSlash(t) THEN site \o t
    ELSE site \o "/songs/" \o t

\* A page: the request raised, or the targets of its anchors, the sources
\* of its audio elements and the URLs the regular expression of line 275
\* finds in its scripts, each in document order.
Pages ==
    [err : BOOLEAN,
     anchors : SeqsUpTo(Targets, MaxAnchors),
     audio : SeqsUpTo({"/f/x.mp3", "https://cdn.example/a.mp3"}, 1),
     scripts : SeqsUpTo({"https://cdn.example/a.mp3"}, 1)]

\* Lines 256-276: download_links.
collected(p) ==
    SelectSeq(p.anchors, LAMBDA t : EndsMp3(t) \/ HasDownload(t))
    \o SelectSeq(p.audio, LAMBDA t : EndsMp3(t))
    \o p.scripts

\* Lines 279-285: valid_links.
RECURSIVE valid_links(_)
valid_links(list) ==
    IF list = <<>> THEN <<>>
    ELSE LET t == Head(list)
         IN  (IF StartsHttp(t) /\ EndsMp3(t) THEN <<t>>
              ELSE IF StartsSlash(t) THEN <<urljoin(t)>>
              ELSE <<>>) \o valid_links(Tail(list))

\* Line 288: list(dict.fromkeys(valid_links)).
RECURSIVE fromkeys(_, _)
fromkeys(list, keys) ==
    IF list = <<>> THEN <<>>
    ELSE IF Head(list) \in keys THEN fromkeys(Tail(list), keys)
    ELSE <<Head(list)>> \o fromkeys(Tail(list), keys \cup {Head(list)})

\* get_download_links without line 288.
get_download_links_NoFromkeys(p) ==
    IF p.err THEN <<>> ELSE valid_links(collected(p))

\* get_download_links, lines 247-295.
get_download_links(p) ==
    IF p.err THEN <<>> ELSE fromkeys(valid_links(collected(p)), {})

NoPage == [stage |-> "idle", err |-> FALSE, anchors |-> <<>>, audio |-> <<>>, scripts |-> <<>>]

EIdle == page = NoPage /\ unique_links = <<>>

EInit ==
    /\ \E p \in Pages :
         page = [stage |-> "new", err |-> p.err, anchors |-> p.anchors, audio |-> p.audio,
                 scripts |-> p.scripts]
    /\ unique_links = <<>>

ExtractLinks ==
    /\ page.stage = "new"
    /\ unique_links' = get_download_links(page)
    /\ page' = [page EXCEPT !.stage = "returned"]
    /\ UNCHANGED <<dvars, lvars, svars, bvars, nvars, tvars, mvars, pvars, wvars>>

\* ------------------------------------------------------- sanitize_filename

MaxName == 3

\* Line 29: invalid_chars = '<>:"/\\|?*'
invalid_chars == {"<", ">", ":", "\"", "/", "\\", "|", "?", "*"}

\* Line 35: filename[:100]
max_name == 100

Repeat(c, n) == [k \in 1..n |-> c]

\* File names, as the sequences of their characters: every short one over
\* a letter, two invalid characters and the blank; the name A/B:C*D; and
\* names around the length limit.
Names ==
    SeqsUpTo({"A", "/", "*", " "}, MaxName)
    \cup {<<"A", "/", "B", ":", "C", "*", "D">>}
    \cup {pre \o Repeat(c, n) :
            pre \in SeqsUpTo({"A", "/", "*", " "}, 1), c \in {"A", "/"},
            n \in (max_name - 1)..(max_name + 1)}
    \cup {Repeat("A", n) \o <<" ", "A">> : n \in (max_name - 2)..max_name}

\* Lines 30-31 leaving "*" as it is.
replace_KeepsStar(c) == IF c \in invalid_chars \ {"*"} THEN "_" ELSE c

\* Lines 30-31, for one character: filename.replace(char, '_').
replace(c) == IF c \in invalid_chars THEN "_" ELSE c

\* Line 34: ' '.join(filename.split()): the characters that are not
\* blank, and the first blank of every run of blanks that stands between
\* two words.
join_split(name) ==
    LET words == {k \in DOMAIN name : name[k] # " "}
        end == IF words = {} THEN 0 ELSE CHOOSE k \in words : \A j \in words : j <= k
        kept == SelectSeq([k \in DOMAIN name |-> k],
                          LAMBDA k : \/ name[k] # " "
                                     \/ (k > 1 /\ name[k - 1] # " " /\ k < end))
    IN  [n \in DOMAIN kept |-> name[kept[n]]]

sanitize_filename(name) ==
    LET replaced == [k \in DOMAIN name |-> replace(name[k])]
        joined == join_split(replaced)
    IN  SubSeq(joined, 1, IF Len(joined) < max_name THEN Len(joined) ELSE max_name)

NoName == [returned |-> FALSE, name |-> <<>>]

NIdle == filename = <<>> /\ safe_filename = NoName

NInit == filename \in Names /\ safe_filename = NoName

Sanitize ==
    /\ ~safe_filename.returned
    /\ safe_filename' = [returned |-> TRUE, name |-> sanitize_filename(filename)]
    /\ UNCHANGED filename
    /\ UNCHANGED <<dvars, lvars, svars, bvars, evars, tvars, mvars, pvars, wvars>>

\* --------------------------------------- the name of the downloaded file

\* The characters of a format extension.
ExtChars ==
    [e \in supported_formats |->
        CASE e = ".mp3" -> <<".", "m", "p", "3">>
          [] e = ".m4a" -> <<".", "m", "4", "a">>
          [] e = ".wav" -> <<".", "w", "a", "v">>
          [] e = ".flac" -> <<".", "f", "l", "a", "c">>
          [] e = ".aac" -> <<".", "a", "a", "c">>]

\* str.lower(), for one character of the names below.
LowerChar(c) == CASE c = "M" -> "m" [] c = "P" -> "p" [] c = "A" -> "a" [] c = "B" -> "b" [] OTHER -> c

\* name.endswith(suffix)
EndsWith(name, suffix) ==
    /\ Len(name) >= Len(suffix)
    /\ SubSeq(name, Len(name) - Len(suffix) + 1, Len(name)) = suffix

\* Line 183: safe_filename.lower().endswith(tuple(self.supported_formats))
EndsInSupportedFormat(name) ==
    \E e \in supported_formats : EndsWith([k \in DOMAIN name |-> LowerChar(name[k])], ExtChars[e])

\* _download_file, lines 169-187: the name of the file under download_folder.
destination(filename_arg, url, ctype) ==
    LET safe == sanitize_filename(filename_arg)
    IN  IF EndsInSupportedFormat(safe) THEN safe
        ELSE safe \o ExtChars[Extension(url, ctype)]

\* f"{n:02d}"
RECURSIVE Decimal(_)
Decimal(n) ==
    LET digit == <<"0", "1", "2", "3", "4", "5", "6", "7", "8", "9">>[(n % 10) + 1]
    IN  IF n < 10 THEN <<digit>> ELSE Decimal(n \div 10) \o <<digit>>
TwoDigits(n) == IF n < 10 THEN <<"0">> \o Decimal(n) ELSE Decimal(n)

\* The preferred name without the position of the track.
preferred_name_NoPosition(position, name, artist) == name \o <<" ", "-", " ">> \o artist

\* app.py line 156: f"{i+1:02d}_{track['name']} - {track['artist']}", for
\* the track at position i + 1 of the playlist.
preferred_name(position, name, artist) ==
    TwoDigits(position) \o <<"_">> \o name \o <<" ", "-", " ">> \o artist

\* download_song, line 85: preferred_name or song_title.
filename_arg(preferred, song_title) == IF preferred # <<>> THEN preferred ELSE song_title

\* Positions in a playlist, of one, two and three digits.
Positions == {1, 10, 100}
\* Names and artists of tracks: short, with unsafe characters, starting
\* like a position, ending like a file, and longer than any file name.
TrackNames ==
    {<<"A">>, <<"0", "_", "A", "/", "B">>, <<"A", ".", "M", "P", "3">>, Repeat("A", max_name)}
Artists == {<<"B">>, <<"B", ".", "w", "a", "v">>}
SongTitles == {<<"R", "o", "j", "a">>, <<"R", "o", "j", "a", ".", "f", "l", "a", "c">>}

\* One call of download_song by download_playlist for a track, as far as
\* the file name goes.
PlaylistCall(position, name, artist) ==
    [position |-> position, name |-> name, artist |-> artist,
     filename |-> filename_arg(preferred_name(position, name, artist), <<"R", "o", "j", "a">>)]

\* The calls of a run: two tracks of one playlist, in order, or one call of
\* download_song without a preferred name.
CallLists ==
    {<<PlaylistCall(p1, n1, a1), PlaylistCall(p2, n2, a2)>> :
        p1 \in Positions, p2 \in Positions, n1 \in TrackNames, n2 \in TrackNames,
        a1 \in Artists, a2 \in Artists}
    \cup {<<[position |-> 0, name |-> <<>>, artist |-> <<>>, filename |-> filename_arg(<<>>, t)]>> :
            t \in SongTitles}

TIdle == calls = <<>> /\ destinations = <<>>

TInit ==
    /\ calls \in {c \in CallLists : Len(c) = 2 => c[1].position < c[2].position}
    /\ destinations = <<>>

\* The next call reaches line 187 with a response of some content type for
\* a link of some kind.
NameFile ==
    /\ Len(destinations) < Len(calls)
    /\ \E url \in StaticUrls, ctype \in ContentTypes :
         destinations' = Append(destinations,
             [url |-> url, ctype |-> ctype,
              name |-> destination(calls[Len(destinations) + 1].filename, url, ctype)])
    /\ UNCHANGED calls
    /\ UNCHANGED <<dvars, lvars, svars, bvars, evars, nvars, mvars, pvars, wvars>>

\* ----------------------------------------------------------- get_best_match

MaxCandidates == 3

\* The titles of the candidates and the queries, as lower-case words.
CandidateTitles == {<<"roja">>, <<"roja", "song">>, <<"vaadi", "pulla">>}
MatchQueries == {<<>>, <<"roja", "song">>, <<"jeans">>}

\* self.model: None after a failed import or load (lines 33-42); loaded;
\* or loaded and raising in encode or cos_sim.
Models == {"unavailable", "loaded", "raises"}

\* What get_best_match returns: None, or the candidate at a position.
None == 0

\* Line 64 with the last candidate for the first.
first_or_none_Last(candidates) == IF candidates # <<>> THEN Len(candidates) ELSE None

\* Line 64: candidates[0] if candidates else None.
first_or_none(candidates) == IF candidates # <<>> THEN 1 ELSE None

\* Lines 119-122: the word-overlap score of a candidate, as a fraction of
\* the number of words of the query; 0 for a query without words.
overlap(query_words, text_words) ==
    Cardinality({query_words[k] : k \in DOMAIN query_words}
                \cap {text_words[k] : k \in DOMAIN text_words})

\* Lines 109-128: the loop, from candidate k on, with the best so far.
RECURSIVE BestFrom(_, _, _, _, _)
BestFrom(query_words, candidates, k, best_score, best) ==
    IF k > Len(candidates) THEN best
    ELSE LET score == IF query_words = <<>> THEN 0 ELSE overlap(query_words, candidates[k])
         IN  IF score > best_score
             THEN BestFrom(query_words, candidates, k + 1, score, k)
             ELSE BestFrom(query_words, candidates, k + 1, best_score, best)

\* _fallback_string_match, lines 105-132.
fallback_string_match(query_words, candidates) ==
    BestFrom(query_words, candidates, 1, 0, None)

\* get_best_match, lines 60-103: the positions it may return. With the
\* model loaded the position is the argmax of the similarities, which the
\* model decides: any position of the list.
get_best_match(model, query_words, candidates) ==
    IF model = "unavailable" \/ candidates = <<>> THEN {first_or_none(candidates)}
    ELSE IF model = "loaded" THEN DOMAIN candidates
    ELSE {fallback_string_match(query_words, candidates)}

MIdle == matching = <<>> /\ best_match = None

MInit ==
    /\ \E model \in Models, q \in MatchQueries, c \in SeqsUpTo(CandidateTitles, MaxCandidates) :
         matching = [stage |-> "called", model |-> model, query |-> q, candidates |-> c]
    /\ best_match = None

BestMatch ==
    /\ matching.stage = "called"
    /\ best_match' \in get_best_match(matching.model, matching.query, matching.candidates)
    /\ matching' = [matching EXCEPT !.stage = "returned"]
    /\ UNCHANGED <<dvars, lvars, svars, bvars, evars, nvars, tvars, pvars, wvars>>

\* ------------------------------------- download_playlist, the working folder

MaxClock == 1

\* The requests handled at once: the server of app.run handles each
\* request in a thread of its own.
RequestIds == {1, 2}

\* The file of the one track of a request's playlist.
TrackFiles == {"01_A - B.mp3", "01_C - D.mp3"}

\* Lines 131-132: datetime.now().strftime('%Y%m%d_%H%M%S'), the clock to
\* the second, names the folder.
timestamp(now) == now
download_folder(stamp) == "downloads/playlist_" \o ToString(stamp)

NoFolder == [exists |-> FALSE, files |-> [f \in TrackFiles |-> {}]]

NoRequest == [stage |-> "idle", track |-> "01_A - B.mp3", stamp |-> 0, zipped |-> {}, removed |-> {}]

PIdle == clock = 0 /\ requests = <<>> /\ disk = <<>>

PInit ==
    /\ clock = 0
    /\ \E tracks \in [RequestIds -> TrackFiles] :
         requests = [r \in RequestIds |-> [NoRequest EXCEPT !.stage = "new", !.track = tracks[r]]]
    /\ disk = [t \in 0..MaxClock |-> NoFolder]

\* A second passes.
Tick ==
    /\ clock < MaxClock
    /\ clock' = clock + 1
    /\ UNCHANGED <<requests, disk>>
    /\ UNCHANGED <<dvars, lvars, svars, bvars, evars, nvars, tvars, mvars, wvars>>

\* Lines 130-133: the folder of the request, made if it is not there.
Accept(r) ==
    /\ requests[r].stage = "new"
    /\ requests' = [requests EXCEPT ![r].stage = "tracks", ![r].stamp = timestamp(clock)]
    /\ disk' = [disk EXCEPT ![timestamp(clock)].exists = TRUE]
    /\ UNCHANGED clock
    /\ UNCHANGED <<dvars, lvars, svars, bvars, evars, nvars, tvars, mvars, wvars>>

\* Lines 139-177: the track is downloaded into the folder, or is not; open()
\* fails when the folder is gone. Lines 196-203: with no track downloaded the
\* request returns, leaving the folder.
Download(r) ==
    /\ requests[r].stage = "tracks"
    /\ \E success \in BOOLEAN :
         IF success /\ disk[requests[r].stamp].exists
         THEN /\ disk' = [disk EXCEPT ![requests[r].stamp].files[requests[r].track] = {r}]
              /\ requests' = [requests EXCEPT ![r].stage = "zip"]
         ELSE /\ requests' = [requests EXCEPT ![r].stage = "done"]
              /\ UNCHANGED disk
    /\ UNCHANGED clock
    /\ UNCHANGED <<dvars, lvars, svars, bvars, evars, nvars, tvars, mvars, wvars>>

\* Lines 183-192: every file under the folder goes into the archive.
Zip(r) ==
    /\ requests[r].stage = "zip"
    /\ requests' = [requests EXCEPT
                      ![r].stage = "cleanup",
                      ![r].zipped = UNION {disk[requests[r].stamp].files[f] : f \in TrackFiles}]
    /\ UNCHANGED <<clock, disk>>
    /\ UNCHANGED <<dvars, lvars, svars, bvars, evars, nvars, tvars, mvars, wvars>>

\* Lines 205-209: shutil.rmtree(download_folder); an error is logged.
Cleanup(r) ==
    /\ requests[r].stage = "cleanup"
    /\ requests' = [requests EXCEPT
                      ![r].stage = "done",
                      ![r].removed = UNION {disk[requests[r].stamp].files[f] : f \in TrackFiles}]
    /\ disk' = [disk EXCEPT ![requests[r].stamp] = NoFolder]
    /\ UNCHANGED clock
    /\ UNCHANGED <<dvars, lvars, svars, bvars, evars, nvars, tvars, mvars, wvars>>

\* ------------------------------------------------- the Selenium functions

MaxElements == 3

\* What handling an element found on the page does: a link is appended,
\* nothing is, or get_attribute raises.
ElementOutcomes == {"link", "nothing", "raises"}

\* The finally clause without the quit.
finally_quits_Never(driver) == FALSE

\* Lines 243-245 and 333-335: `if driver: driver.quit()`.
finally_quits(driver) == driver = "open"

NoBrowser == [pc |-> "idle", fn |-> "search", elements |-> <<>>, k |-> 0, found |-> 0,
              result |-> "none"]

WIdle == browser = <<>> /\ drivers = "none"

\* A call of _search_masstamilan_selenium or of get_download_links_selenium
\* on a page with some elements.
WInit ==
    /\ \E fn \in {"search", "links"}, elements \in SeqsUpTo(ElementOutcomes, MaxElements) :
         browser = [NoBrowser EXCEPT !.pc = "start", !.fn = fn, !.elements = elements]
    /\ drivers = "none"

\* Lines 30-47, 210-212 and 301-303: get_driver gives a driver, or None
\* after an error, and then the call returns [].
GetDriver ==
    /\ browser.pc = "start"
    /\ \E created \in BOOLEAN :
         IF created
         THEN /\ drivers' = "open"
              /\ browser' = [browser EXCEPT !.pc = "get"]
         ELSE /\ drivers' = "none"
              /\ browser' = [browser EXCEPT !.pc = "finally", !.result = "list"]
    /\ UNCHANGED <<dvars, lvars, svars, bvars, evars, nvars, tvars, mvars, pvars>>

\* Lines 214-223 and 305-312: driver.get and find_elements, which may
\* raise; the except clause returns [].
LoadPage ==
    /\ browser.pc = "get"
    /\ \E raised \in BOOLEAN :
         browser' = IF raised
                    THEN [browser EXCEPT !.pc = "finally", !.result = "list"]
                    ELSE [browser EXCEPT !.pc = "elements", !.k = 1]
    /\ UNCHANGED drivers
    /\ UNCHANGED <<dvars, lvars, svars, bvars, evars, nvars, tvars, mvars, pvars>>

\* Lines 225-236 and 314-326: one element; its error is passed over.
Element ==
    /\ browser.pc = "elements"
    /\ browser.k <= Len(browser.elements)
    /\ browser' = [browser EXCEPT
                     !.k = @ + 1,
                     !.found = IF browser.elements[browser.k] = "link" THEN @ + 1 ELSE @]
    /\ UNCHANGED drivers
    /\ UNCHANGED <<dvars, lvars, svars, bvars, evars, nvars, tvars, mvars, pvars>>

\* Lines 238 and 328: the return after the loop.
ReturnList ==
    /\ browser.pc = "elements"
    /\ browser.k > Len(browser.elements)
    /\ browser' = [browser EXCEPT !.pc = "finally", !.result = "list"]
    /\ UNCHANGED drivers
    /\ UNCHANGED <<dvars, lvars, svars, bvars, evars, nvars, tvars, mvars, pvars>>

\* Lines 243-245 and 333-335: the finally clause, and the call is over:
\* it returns its list, or driver.quit() raised.
Finally ==
    /\ browser.pc = "finally"
    /\ IF finally_quits(drivers)
       THEN /\ drivers' = "quit"
            /\ \E raised \in BOOLEAN :
                 browser' = [browser EXCEPT !.pc = "returned",
                                            !.result = IF raised THEN "raised" ELSE @]
       ELSE /\ UNCHANGED drivers
            /\ browser' = [browser EXCEPT !.pc = "returned"]
    /\ UNCHANGED <<dvars, lvars, svars, bvars, evars, nvars, tvars, mvars, pvars>>

vars == <<dvars, lvars, svars, bvars, evars, nvars, tvars, mvars, pvars, wvars>>

Init == DInit /\ LIdle /\ SIdle /\ BIdle /\ EIdle /\ NIdle /\ TIdle /\ MIdle /\ PIdle /\ WIdle

Next ==
    \/ StartTrack
    \/ NoUrl
    \/ BeginAttempt
    \/ TryLink
    \/ LinksFailed
    \/ Exhausted

Spec == Init /\ [][Next]_vars

InitLink == DInit /\ LInit /\ SIdle /\ BIdle /\ EIdle /\ NIdle /\ TIdle /\ MIdle /\ PIdle /\ WIdle

NextLink == LinkIteration

SpecLink == InitLink /\ [][NextLink]_vars

InitSearch == DInit /\ LIdle /\ SInit /\ BIdle /\ EIdle /\ NIdle /\ TIdle /\ MIdle /\ PIdle /\ WIdle

NextSearch ==
    \/ Primary
    \/ Backup
    \/ Selenium
    \/ Variation
    \/ Finish

SpecSearch == InitSearch /\ [][NextSearch]_vars

InitFilter == DInit /\ LIdle /\ FInit /\ BIdle /\ EIdle /\ NIdle /\ TIdle /\ MIdle /\ PIdle /\ WIdle

NextFilter ==
    \/ ApplyFilter
    \/ ApplyAgain
    \/ Cut

SpecFilter == InitFilter /\ [][NextFilter]_vars

InitBatch == DInit /\ LIdle /\ SIdle /\ BInit /\ EIdle /\ NIdle /\ TIdle /\ MIdle /\ PIdle /\ WIdle

NextBatch ==
    \/ BeginBatch
    \/ ProcessTrack
    \/ FinishBatch

SpecBatch == InitBatch /\ [][NextBatch]_vars

InitExtract == DInit /\ LIdle /\ SIdle /\ BIdle /\ EInit /\ NIdle /\ TIdle /\ MIdle /\ PIdle /\ WIdle

NextExtract == ExtractLinks

SpecExtract == InitExtract /\ [][NextExtract]_vars

InitName == DInit /\ LIdle /\ SIdle /\ BIdle /\ EIdle /\ NInit /\ TIdle /\ MIdle /\ PIdle /\ WIdle

NextName == Sanitize

SpecName == InitName /\ [][NextName]_vars

InitDest == DInit /\ LIdle /\ SIdle /\ BIdle /\ EIdle /\ NIdle /\ TInit /\ MIdle /\ PIdle /\ WIdle

NextDest == NameFile

SpecDest == InitDest /\ [][NextDest]_vars

InitMatch == DInit /\ LIdle /\ SIdle /\ BIdle /\ EIdle /\ NIdle /\ TIdle /\ MInit /\ PIdle /\ WIdle

NextMatch == BestMatch

SpecMatch == InitMatch /\ [][NextMatch]_vars

InitFolder == DInit /\ LIdle /\ SIdle /\ BIdle /\ EIdle /\ NIdle /\ TIdle /\ MIdle /\ PInit /\ WIdle

NextFolder ==
    \/ Tick
    \/ \E r \in RequestIds : Accept(r)
    \/ \E r \in RequestIds : Download(r)
    \/ \E r \in RequestIds : Zip(r)
    \/ \E r \in RequestIds : Cleanup(r)

SpecFolder == InitFolder /\ [][NextFolder]_vars

InitDriver == DInit /\ LIdle /\ SIdle /\ BIdle /\ EIdle /\ NIdle /\ TIdle /\ MIdle /\ PIdle /\ WInit

NextDriver ==
    \/ GetDriver
    \/ LoadPage
    \/ Element
    \/ ReturnList
    \/ Finally

SpecDriver == InitDriver /\ [][NextDriver]_vars

TypeOK ==
    /\ pc \in {"idle", "attempt", "attempt_no_url", "links", "done"}
    /\ attempt \in 0..max_retries
    /\ i \in 1..(MaxLinks + 1)

\* ------------------------------------------------------------------ claims

\* C1: in every execution of download_song for one track, whatever the
\* extraction, validation and transfer do (exceptions included), the number
\* of attempts started never exceeds 3.
C1_AttemptsBounded == started <= max_retries

\* The third attempt has begun and found links.
C1_Witness == started = max_retries /\ pc = "links"

\* The track ended with nothing found: no search hit, or no link in any of
\* the attempts begun.
AlwaysEmpty ==
    \/ ret = "app:170"
    \/ ret \in {"download_song:73", "download_song:103"} /\ noLinks = started

InOrderUntilVerified ==
    (pc = "links" /\ i <= Len(links)) =>
        /\ last'.idx = i
        /\ (last'.how = "ok") <=> (pc' = "done" /\ result' = "success")
        /\ last'.how = "ok" => (files'[last'.path].how = "ok" /\ Verified(files'[last'.path].size))
        /\ last'.how # "ok" => (pc' = "links" /\ i' = i + 1 /\ links' = links)

\* No file of a transfer that failed verification is in the folder.
NoUnverifiedFile ==
    /\ \A e \in supported_formats : files[e].how \notin {"too_small", "exceeded"}
    /\ (last.how = "too_small" /\ last.path # "") => files[last.path] = NoFile
    /\ result = "success" => (last.how = "ok" /\ files[last.path].how = "ok")

\* C3: within an attempt the links are tried in extraction order and the
\* controller stops at the first link whose transfer verifies; with two
\* links failing verification and the third verifying, download_song
\* reports success with the third link's file, no later link is
\* transferred, and the files of the first two transfers do not exist.
C3_FirstVerifiedLink == [][InOrderUntilVerified]_vars /\ []NoUnverifiedFile

\* Two links failed verification, the third verified.
C3_Witness ==
    /\ pc = "done" /\ result = "success"
    /\ last.idx = 3 /\ unverified = 2 /\ Len(links) = 3

\* C4: after _download_file returns failure once writing has begun (file
\* too small, size limit exceeded, or an exception while streaming), the
\* file it was writing does not exist.
C4_NoPartialFile ==
    (lk.stage = "returned" /\ ~lk.ok /\ lk.written > 0) => folder[lk.path] = NoFile

\* C5: a transfer is reported verified if and only if the final file exists
\* with a size of at least 1024 bytes (inclusive); a smaller file is deleted
\* and the transfer reported failed.
C5_VerifiedIffAtLeastKiB ==
    (lk.stage = "returned" /\ lk.how \in {"ok", "too_small"}) =>
        /\ lk.ok <=> lk.written >= KiB
        /\ lk.ok => (folder[lk.path].how = "ok" /\ folder[lk.path].size >= KiB)
        /\ lk.written < KiB => folder[lk.path] = NoFile

\* A step of the loop over the links in which the transfer ran over the
\* size limit.
OversizeIsLinkFailure ==
    (pc = "links" /\ i <= Len(links) /\ last'.how = "exceeded") =>
        /\ files'[last'.path] = NoFile
        /\ pc' = "links" /\ i' = i + 1 /\ links' = links
        /\ attempt' = attempt /\ started' = started /\ result' = "none"

\* C6: when the bytes received exceed the maximum file size the partial file
\* is deleted, the link has failed, and the controller goes on to the next
\* link of the same attempt without another attempt being consumed.
C6_OversizeIsLinkFailure == [][OversizeIsLinkFailure]_vars

\* An oversize transfer with a candidate left to try.
C6_Witness == pc = "links" /\ last.how = "exceeded" /\ i <= Len(links)

Declared(n) == n # NoLength /\ n # BadLength
OutOfRange(n) == Declared(n) /\ (n < min_song_size \/ n > max_file_size)
FolderUntouched ==
    folder = [e \in supported_formats |-> IF e = ".mp3" THEN lk.found ELSE NoFile]

\* C7 as stated: every link with a size declared ahead of the body (by the
\* probe or by the transfer response) outside [1 MiB, 100 MiB] is rejected
\* and no byte is written, links with an audio extension included.
C7_Original ==
    (lk.stage = "returned" /\ (OutOfRange(lk.probeLen) \/ OutOfRange(lk.getLen)))
        => (~lk.ok /\ lk.written = 0 /\ lk.path = "")

\* C7, amended: a link without an audio extension in its URL whose
\* validation probe declares a size outside [1 MiB, 100 MiB] is rejected and
\* no byte is written; any link whose transfer response declares more than
\* 100 MiB is given up before a byte is written. (A URL with an audio
\* extension is not probed, and a transfer response declaring less than
\* 1 MiB is transferred.)
C7_SizeGate ==
    lk.stage = "returned" =>
        /\ OutOfRange(lk.probeLen) =>
             (lk.how = "invalid" /\ ~lk.ok /\ lk.written = 0 /\ lk.path = "" /\ FolderUntouched)
        /\ (Declared(lk.getLen) /\ lk.getLen > max_file_size) =>
             (lk.how = "declared_too_large" /\ ~lk.ok /\ lk.written = 0 /\ lk.path = ""
              /\ FolderUntouched)

\* A probe declaring one byte less than 1 MiB, and the link rejected.
C7_Witness ==
    lk.stage = "returned" /\ ~lk.url.fmt /\ lk.probeLen = min_song_size - 1 /\ lk.how = "invalid"

\* The stage called k-th when every stage before it gave nothing.
StageAt(k) ==
    CASE k = 1 -> "primary" [] k = 2 -> "backup" [] k = 3 -> "selenium" [] OTHER -> "variation"

\* C8: the cascade queries its stages in strict fallback order: the backup
\* only after the primary gave no hits, Selenium only after both gave none,
\* the variations only after all three gave none; once a stage has given a
\* hit no later stage is called.
C8_StrictFallbackOrder ==
    \A k \in DOMAIN log :
        /\ log[k].stage = StageAt(k)
        /\ \A j \in 1..(k - 1) : log[j].n = 0

\* All three stages gave nothing and the second variation gave a hit.
C8_Witness ==
    /\ spc = "done" /\ Len(log) = 5
    /\ log[5].stage = "variation" /\ log[5].n > 0 /\ output # <<>>

\* C9: search_masstamilan returns an empty list only if all four stages were
\* exhausted: the primary, the backup, Selenium and every variation of the
\* list were each searched.
C9_EmptyOnlyAfterAllStages ==
    (spc = "done" /\ output = <<>>) =>
        /\ {"primary", "backup", "selenium"} \subseteq {log[k].stage : k \in DOMAIN log}
        /\ Cardinality(searched) = VariationCount(query)

StagesLeft == Len(log) < 3 + VariationCount(query)

\* The last stage called: it did not raise, and if its request failed it
\* gave no hit and the cascade stands at the next stage.
FailureIsZeroHits ==
    /\ ~lastCall.raised
    /\ (log # <<>> /\ lastCall.failed) =>
         /\ lastCall.stage = log[Len(log)].stage
         /\ log[Len(log)].n = 0
         /\ StagesLeft => spc = (IF Len(log) < 3 THEN StageAt(Len(log) + 1) ELSE "variations")
         /\ spc = "done" => (~StagesLeft /\ output = <<>>)

\* The step after a failed request, while stages are left, calls the next stage.
NextStageAfterFailure ==
    (log # <<>> /\ lastCall.failed /\ StagesLeft) =>
        /\ log' = Append(log, [stage |-> StageAt(Len(log) + 1), n |-> log'[Len(log')].n])
        /\ lastCall'.stage = StageAt(Len(log) + 1)

Differ(a, b) == a.url # b.url /\ Lower(a.title) # Lower(b.title)

\* C11: for every list of raw hits, the list returned by the cascade
\* contains no two entries with the same URL and no two entries with the
\* same normalized (lower-cased, trimmed) title.
C11_NoDuplicateHits ==
    spc \in {"once", "cut"} =>
        \A j, k \in DOMAIN output : j # k => Differ(output[j], output[k])

\* Three raw hits, two of one URL and two of one title in different case,
\* and a returned hit.
C11_Witness ==
    /\ spc = "cut" /\ Len(search_results) = MaxRaw /\ output # <<>>
    /\ \E j, k \in DOMAIN search_results :
          j # k /\ search_results[j].url = search_results[k].url
    /\ \E j, k \in DOMAIN search_results :
          /\ search_results[j].title # search_results[k].title
          /\ Lower(search_results[j].title) = Lower(search_results[k].title)

\* The positions of the hits with URL u in a list.
At(list, u) == {k \in DOMAIN list : list[k].url = u}
Repeated(list) == {list[k].url : k \in {j \in DOMAIN list : Cardinality(At(list, list[j].url)) > 1}}

FilteredTwice == spc = "twice" => output = filter_and_deduplicate_results(search_results)

\* C12 as stated: the filter is idempotent, and a list containing two hits
\* with exactly the same URL yields exactly one entry for that URL, whatever
\* the titles of these hits.
C12_Original ==
    /\ FilteredTwice
    /\ spc = "once" =>
         \A u \in Repeated(search_results) : Cardinality(At(output, u)) = 1

\* C12, amended: the filter is idempotent, filter(filter(L)) = filter(L) for
\* every hit list L; a list containing two hits with exactly the same URL
\* yields at most one entry for that URL, and exactly one when every hit
\* with that URL has a title that passes the junk filter and is not the
\* normalized title of a hit with another URL.
C12_Idempotent ==
    /\ FilteredTwice
    /\ spc = "once" =>
         \A u \in Repeated(search_results) :
             /\ Cardinality(At(output, u)) <= 1
             /\ (\A k \in At(search_results, u) :
                    /\ ~IsJunk(Lower(search_results[k].title), TitleLen(search_results[k].title))
                    /\ \A j \in DOMAIN search_results \ At(search_results, u) :
                          Lower(search_results[j].title) # Lower(search_results[k].title))
                => Cardinality(At(output, u)) = 1

\* The filter was applied twice to a list with a repeated URL, and one hit
\* of that URL is left.
C12_Witness ==
    /\ spc = "twice" /\ Len(search_results) = MaxRaw
    /\ \E u \in Repeated(search_results) :
          Cardinality(At(search_results, u)) = MaxRaw /\ Cardinality(At(output, u)) = 1

\* The hit at position k of a list is junk by its title.
JunkAt(list, k) == IsJunk(Lower(list[k].title), TitleLen(list[k].title))

\* The positions of the hits that are not junk and are the first of the
\* list with their URL and the first with their title.
FirstOccurrences(list) ==
    {k \in DOMAIN list :
        ~JunkAt(list, k) /\ \A j \in 1..(k - 1) : Differ(list[j], list[k])}

\* The positions, up to k, of the hits that are not junk and share neither
\* URL nor title with a hit kept before them.
RECURSIVE KeptUpTo(_, _)
KeptUpTo(list, k) ==
    IF k = 0 THEN {}
    ELSE LET before == KeptUpTo(list, k - 1)
         IN  IF ~JunkAt(list, k) /\ \A j \in before : Differ(list[j], list[k])
             THEN before \cup {k} ELSE before

\* The hits of a list at the positions of a set, in the order of the list.
RECURSIVE Pick(_, _)
Pick(list, at) ==
    IF at = {} THEN <<>>
    ELSE LET k == CHOOSE m \in at : \A n \in at : m <= n
         IN  <<list[k]>> \o Pick(list, at \ {k})

FirstTwenty(list) == SubSeq(list, 1, IF Len(list) < 20 THEN Len(list) ELSE 20)

\* C13 as stated: the output has at most 20 hits and is the first 20 of
\* the raw hits that are not junk, each the first occurrence among the raw
\* hits of its URL and of its title.
C13_Original ==
    spc = "cut" =>
        /\ Len(output) <= 20
        /\ output = FirstTwenty(Pick(search_results, FirstOccurrences(search_results)))

\* C13, amended: the output has at most 20 hits and preserves discovery
\* order: it is the first 20 elements of the subsequence of the raw hits
\* that pass the junk filter and share neither URL nor normalized title
\* with a hit kept before them. (A hit is kept although its URL or title
\* occurred earlier, when the earlier hit was itself dropped.)
C13_DiscoveryOrder ==
    spc = "cut" =>
        /\ Len(output) <= 20
        /\ output = FirstTwenty(Pick(search_results,
                                     KeptUpTo(search_results, Len(search_results))))

\* More than 20 hits are kept and the output has 20.
C13_Witness ==
    /\ spc = "cut" /\ Len(output) = 20
    /\ Cardinality(KeptUpTo(search_results, Len(search_results))) > 20
    /\ output[1].title = "Roja Song"

\* C14: the junk filter rejects exactly the hits whose normalized title has
\* fewer than 5 characters or contains one of the markers "advertisement",
\* "ad", "promo": no hit of the output has such a title, and a hit that
\* shares neither URL nor title with another hit of the list, whose title
\* has at least 5 characters and contains no marker, is kept.
C14_JunkFilter ==
    spc = "once" =>
        /\ \A k \in DOMAIN output :
              TitleLen(output[k].title) >= 5 /\ ~HasMarker(Lower(output[k].title))
        /\ \A k \in DOMAIN search_results :
              (/\ TitleLen(search_results[k].title) >= 5
               /\ ~HasMarker(Lower(search_results[k].title))
               /\ \A j \in DOMAIN search_results \ {k} :
                     Differ(search_results[j], search_results[k]))
                => \E m \in DOMAIN output : output[m] = search_results[k]

\* A title of four characters and one with a marker were dropped, one of
\* five characters was kept.
C14_Witness ==
    /\ spc = "once" /\ Len(output) = 1 /\ output[1].title = "Jeans"
    /\ \E j, k \in DOMAIN search_results :
          search_results[j].title = "Roja" /\ search_results[k].title = "Vaadi Pulla"

\* The calls of the variation stage, by their position in the log.
VariationCalls == {k \in DOMAIN log : log[k].stage = "variation"}

\* C15: in the variation stage at most 5 query variations are generated,
\* the primary direct search is run against them one at a time in list
\* order, each once, and the stage stops at the first variation that yields
\* a hit: no later variation is searched after one has produced a result.
C15_VariationStage ==
    /\ Cardinality(VariationCalls) <= 5
    /\ Cardinality(VariationCalls) = Cardinality(searched)
    /\ searched \subseteq VariationCandidates(query)
    /\ \A k \in VariationCalls :
          /\ \A j \in 1..(k - 1) : log[j].n = 0
          /\ log[k].n > 0 => (k = Len(log) /\ spc \in {"filter", "done"})
    /\ (lastCall.stage = "variation" /\ log[Len(log)].n = 0
         /\ Cardinality(searched) < VariationCount(query)) => spc = "variations"

\* The first of five variations gave a hit and the search returned it.
C15_Witness ==
    /\ spc = "done" /\ output # <<>> /\ VariationCount(query) = 5
    /\ VariationCalls = {4} /\ Len(log) = 4

\* C16: for any input query, the empty query and queries of one or two
\* words included, the variation generator returns at most 5 entries, every
\* entry is non-empty after trimming, and no two entries are equal.
C16_VariationsWellFormed ==
    /\ VariationCount(query) <= 5
    /\ Cardinality(searched) <= 5
    /\ Cardinality(searched) = Cardinality(VariationCalls)
    /\ \A v \in searched : StrLen(v) > 0

\* A list without its repeated elements, each at its first place.
RECURSIVE FirstSeen(_, _)
FirstSeen(list, seen) ==
    IF list = <<>> THEN <<>>
    ELSE IF Head(list) \in seen THEN FirstSeen(Tail(list), seen)
    ELSE <<Head(list)>> \o FirstSeen(Tail(list), seen \cup {Head(list)})

\* The variations of a query in first-seen order, cut to 5.
FirstFive(words) ==
    LET all == FirstSeen(VariationsList(words), {})
    IN  SubSeq(all, 1, IF Len(all) < 5 THEN Len(all) ELSE 5)

\* C17: the list of variations is a function of the query text alone: it
\* is the generated candidates in first-seen order (word-drops, then
\* prefixes, then substitutions) cut to the first five, so the variations
\* searched so far are always the first ones of that list.
C17_FirstSeenOrder ==
    searched = {FirstFive(query)[k] : k \in 1..Cardinality(searched)}

\* C18: validate_download_link accepts a URL without issuing a probe only
\* when the URL string ends in one of the known audio extensions; every URL
\* that does not end in such an extension is accepted only on the basis of
\* a metadata probe.
C18_FastPathOnlyBySuffix ==
    (lk.stage = "returned" /\ lk.valid /\ ~lk.url.ends) =>
        (lk.probed /\ ~lk.probeErr /\ lk.probeStatus = 200)

InRange(n) == n = NoLength \/ (Declared(n) /\ min_song_size <= n /\ n <= max_file_size)

ProbeFailureIsLinkFailure ==
    (pc = "links" /\ i <= Len(links) /\ last'.probeFailed) =>
        /\ last'.how = "invalid" /\ last'.path = ""
        /\ files' = files
        /\ pc' = "links" /\ i' = i + 1 /\ links' = links
        /\ attempt' = attempt /\ started' = started /\ result' = "none"

\* C20: a transport error, or a malformed declared size, during the
\* validation probe makes validate_download_link return false; the error
\* is not raised to the caller and the controller continues with the next
\* link.
C20_ProbeErrorIsInvalid == [][ProbeFailureIsLinkFailure]_vars

\* The probe of the first link failed and a second link is left to try.
C20_Witness ==
    pc = "links" /\ last.probeFailed /\ last.idx = 1 /\ i = 2 /\ Len(links) >= 2

\* A step of the loop over the links in which validate_download_link
\* rejected the link: nothing was transferred and the loop is at the next
\* link, in the same attempt.
RejectedLinkIsSkipped ==
    (pc = "links" /\ i <= Len(links) /\ ~last'.valid) =>
        /\ last'.how = "invalid" /\ last'.path = ""
        /\ files' = files
        /\ pc' = "links" /\ i' = i + 1 /\ links' = links
        /\ attempt' = attempt /\ started' = started /\ extraction' = extraction

\* C21: a link rejected by validation is discarded and the next candidate
\* link is tried within the same attempt: no body transfer is started for
\* the rejected link and the rejection does not advance the track's attempt
\* counter.
C21_RejectedLinkIsSkipped == [][RejectedLinkIsSkipped]_vars

\* The second of three links was rejected, on what its probe declared, in
\* the first attempt.
C21_Witness ==
    /\ pc = "links" /\ ~last.valid /\ ~last.probeFailed /\ last.idx = 2
    /\ i = 3 /\ Len(links) = 3 /\ attempt = 0

\* Every step of the pipeline has the steps before it behind it.
StepsInOrder ==
    /\ started > 0 => (searches > 0 /\ ret \notin {"app:170", "app:167"})
    /\ extraction.ran => started > 0
    /\ pc = "links" => (extraction.ran /\ links # <<>>)
    /\ last # NoLast => started > 0

\* A link iteration is of a link of the current attempt, and transfers
\* only when this link passed validation.
TransferAfterValidation ==
    last' # last =>
        /\ pc = "links" /\ last'.idx = i /\ i \in DOMAIN links /\ links' = links
        /\ last'.how # "invalid" => last'.valid
        /\ files' # files => last'.valid

\* C22: per track the steps happen in the order search, link extraction,
\* validation, download: extraction runs only on a hit produced by a
\* completed search, and a body transfer of a link starts only after that
\* same link has passed validation in the same attempt.
C22_PipelineOrder == []StepsInOrder /\ [][TransferAfterValidation]_vars

\* A track whose second link passed validation and was downloaded.
C22_Witness ==
    /\ pc = "done" /\ result = "success" /\ searches = 1 /\ extraction.ran
    /\ last.valid /\ last.idx = 2 /\ started = 1

\* C23: after a failed attempt with attempts remaining the controller
\* restarts at the search: every attempt of a track begins with a new
\* search before links are extracted, so there are as many searches as
\* attempts begun.
C23_AttemptBeginsWithSearch == started <= searches

\* C24: in each attempt the dynamic-rendering link extractor is invoked if
\* and only if the static extractor returned no links for the page; when
\* the static extractor returns at least one link the dynamic extractor is
\* not invoked in that attempt.
C24_SeleniumIffStaticEmpty ==
    /\ extraction.ran => (extraction.selenium <=> ~extraction.static)
    /\ (pc = "links" /\ extraction.static) => \A k \in DOMAIN links : links[k] \in StaticUrls
    /\ (pc = "links" /\ extraction.selenium) => \A k \in DOMAIN links : links[k] \in SeleniumUrls

\* Selenium was called and gave the two links of the attempt.
C24_Witness ==
    pc = "links" /\ extraction.ran /\ extraction.selenium /\ Len(links) = 2 /\ i = 1

\* C25: exhaustion and every error internal to link discovery, validation
\* or transfer is reported to the caller as a per-track failure value:
\* download_song never raises to its caller, whatever the network
\* collaborators do, and the track ends with success or failure.
C25_NeverRaises ==
    /\ result # "raised" /\ ret # "download_song:raise"
    /\ pc = "done" <=> result \in {"success", "failure"}
    /\ (pc = "attempt" /\ ~LoopContinues(attempt)) => result = "none"

\* All three iterations raised before any link was extracted, and
\* download_song returned False.
C25_Witness ==
    /\ pc = "done" /\ result = "failure" /\ ret = "download_song:103"
    /\ started = max_retries /\ ~extraction.ran /\ noLinks = 0 /\ links = <<>>

\* C26: after a batch finishes, every track of the batch is counted in
\* exactly one of the successful and failed tallies, so successful + failed
\* = total for any mix of per-track outcomes and exceptions, and the success
\* rate is successful / total (0 for an empty batch).
C26_TalliesPartition ==
    /\ successful_downloads \cap failed_downloads = {}
    /\ bpc = "loop" => successful_downloads \cup failed_downloads = 1..Len(outcomes)
    /\ bpc = "done" =>
         /\ successful_downloads \cup failed_downloads = 1..song_list
         /\ report.successful = Cardinality(successful_downloads)
         /\ report.failed = Cardinality(failed_downloads)
         /\ report.total = song_list
         /\ report.successful + report.failed = report.total
         /\ report.success_rate.den > 0
         /\ report.success_rate.num * song_list = report.successful * report.success_rate.den
         /\ song_list = 0 => report.success_rate.num = 0

\* A full batch with a success, a failure and an exception in it.
C26_Witness ==
    /\ bpc = "done" /\ song_list = MaxBatch /\ Len(outcomes) = MaxBatch
    /\ {outcomes[k] : k \in DOMAIN outcomes} = TrackOutcomes

\* The elements of a list, and the first position of one of them.
Elements(list) == {list[k] : k \in DOMAIN list}
FirstAt(list, x) == CHOOSE k \in DOMAIN list : list[k] = x /\ \A j \in 1..(k - 1) : list[j] # x

\* C27: the static link extractor returns its candidate links in discovery
\* order with duplicates removed by exact string equality after relative
\* targets are resolved: no string occurs twice in the output and each link
\* stands at the position of its first occurrence.
C27_UniqueInOrder ==
    page.stage = "returned" =>
        LET candidates == IF page.err THEN <<>> ELSE valid_links(collected(page))
        IN  /\ \A j, k \in DOMAIN unique_links : j # k => unique_links[j] # unique_links[k]
            /\ Elements(unique_links) = Elements(candidates)
            /\ \A j, k \in DOMAIN unique_links :
                  j < k => FirstAt(candidates, unique_links[j]) < FirstAt(candidates, unique_links[k])

\* A root-relative target and the absolute URL it resolves to, on one page,
\* give one link, after another one.
C27_Witness ==
    /\ page.stage = "returned" /\ Len(unique_links) = 2
    /\ page.anchors = <<"https://cdn.example/a.mp3", "/f/x.mp3", "https://masstamilan.dev/f/x.mp3">>
    /\ unique_links[2] = "https://masstamilan.dev/f/x.mp3"

\* A target that ends in one of supported_formats.
EndsInFormat(t) == EndsMp3(t) \/ t = "https://cdn.example/b.m4a"

\* C28: every anchor target on the page that ends in a known audio
\* extension or contains "download" is included in the extractor's output,
\* after resolution, whether the target is absolute or relative.
C28_EveryAudioAnchorIncluded ==
    (page.stage = "returned" /\ ~page.err) =>
        \A k \in DOMAIN page.anchors :
            (EndsInFormat(page.anchors[k]) \/ HasDownload(page.anchors[k]))
                => urljoin(page.anchors[k]) \in Elements(unique_links)

\* C29: every relative link target collected by the extractor,
\* root-relative and document-relative alike, is resolved against the
\* page's own URL and the resolved absolute URL appears in the output.
C29_RelativeTargetsResolved ==
    (page.stage = "returned" /\ ~page.err) =>
        \A k \in DOMAIN collected(page) :
            ~StartsHttp(collected(page)[k])
                => urljoin(collected(page)[k]) \in Elements(unique_links)

\* C30: sanitize_filename replaces every filesystem-unsafe character
\* (< > : " / \ | ? *) with an underscore and truncates the result to at
\* most 100 characters: the output contains none of those characters and
\* has length <= 100 for every input, and the input A/B:C*D gives A_B_C_D.
C30_SanitizedName ==
    safe_filename.returned =>
        LET out == safe_filename.name
        IN  /\ \A k \in DOMAIN out : out[k] \notin {"<", ">", ":", "\"", "/", "\\", "|", "?", "*"}
            /\ Len(out) <= 100
            /\ filename = <<"A", "/", "B", ":", "C", "*", "D">>
                 => out = <<"A", "_", "B", "_", "C", "_", "D">>
            /\ (Len(filename) <= 100 /\ \A k \in DOMAIN filename : filename[k] # " ")
                 => out = [k \in DOMAIN filename |->
                              IF filename[k] \in {"/", "*", ":"} THEN "_" ELSE filename[k]]

\* A name of 102 characters, all of them unsafe, gave 100 underscores.
C30_Witness ==
    /\ safe_filename.returned /\ Len(filename) = 102 /\ filename[1] = "*" /\ filename[2] = "/"
    /\ Len(safe_filename.name) = 100 /\ safe_filename.name[100] = "_"

\* C31: the destination file name is the sanitized preferred name (the hit
\* title when no preferred name is given) with a format extension appended:
\* the extension of the declared content type, else the URL's suffix when it
\* is a supported format, else .mp3.
C31_NameIsSanitizedPlusExtension ==
    \A k \in DOMAIN destinations :
        destinations[k].name =
            sanitize_filename(calls[k].filename)
            \o ExtChars[Extension(destinations[k].url, destinations[k].ctype)]

\* C32: within one batch two different tracks never get the same
\* destination file name: for any two distinct positions and any names the
\* sanitized, truncated names with extension differ.
C32_DistinctDestinations ==
    Len(destinations) = 2 =>
        /\ calls[1].position # calls[2].position
        /\ destinations[1].name # destinations[2].name

\* Two tracks of the same name and artist, too long for a file name, whose
\* transfers were of the same kind.
C32_Witness ==
    /\ Len(destinations) = 2
    /\ calls[1].name = Repeat("A", max_name) /\ calls[2].name = calls[1].name
    /\ calls[1].artist = calls[2].artist
    /\ destinations[1].url = destinations[2].url /\ destinations[1].ctype = destinations[2].ctype
    /\ Len(destinations[1].name) > max_name

\* C33: when no model is loaded get_best_match returns the first hit of a
\* non-empty list and None for an empty list.
C33_FirstHitWithoutModel ==
    (matching.stage = "returned" /\ matching.model = "unavailable") =>
        best_match = IF matching.candidates = <<>> THEN None ELSE 1

\* Without a model, the first of three differing candidates was returned.
C33_Witness ==
    /\ matching.stage = "returned" /\ matching.model = "unavailable"
    /\ Len(matching.candidates) = 3 /\ matching.candidates[1] # matching.candidates[3]
    /\ best_match = 1

\* C34: when a track ends in exhaustion the result reported to the batch
\* caller is a structured failure that tells the reason: no-results,
\* all-links-invalid or all-downloads-failed.
C34_FailureCarriesReason ==
    (pc = "done" /\ result # "success") =>
        result \in {"no-results", "all-links-invalid", "all-downloads-failed"}

\* C35: every direct-search request of the cascade (primary, backup and each
\* variation search) is preceded by a delay step: no two direct-search
\* requests are issued without a delay between them.
C35_DelayBeforeEveryRequest ==
    /\ \A k \in DOMAIN wire : wire[k] = "get" => (k > 1 /\ wire[k - 1] = "sleep")
    /\ Cardinality({k \in DOMAIN wire : wire[k] = "get"})
         = Cardinality({k \in DOMAIN log : log[k].stage # "selenium"})

\* The primary, the backup and two variation searches were made.
C35_Witness ==
    /\ spc = "done" /\ Cardinality(searched) = 2
    /\ Cardinality({k \in DOMAIN wire : wire[k] = "get"}) = 4

\* C36: no query variation searched for equals the query it was generated
\* from: the variation stage never repeats the search of the primary stage.
C36_VariationDiffersFromQuery == Join(query, " ") \notin searched

\* The requests being handled that have a folder.
InFlight == {r \in RequestIds : requests[r].stage \in {"tracks", "zip", "cleanup"}}

\* C37: two download requests handled concurrently never share a working
\* folder: the cleanup or the archive of one never deletes or bundles files
\* written by another, also when both start within the same second.
C37_FoldersNotShared ==
    /\ \A r1, r2 \in InFlight :
          r1 # r2 => download_folder(requests[r1].stamp) # download_folder(requests[r2].stamp)
    /\ \A r \in RequestIds : requests[r].zipped \subseteq {r} /\ requests[r].removed \subseteq {r}

\* C38: get_best_match returns a member of the candidate list whenever the
\* list is not empty, on every path: model loaded, model unavailable, and
\* model raising with the word-overlap fallback.
C38_ReturnsACandidate ==
    (matching.stage = "returned" /\ matching.candidates # <<>>) =>
        best_match \in DOMAIN matching.candidates

\* C39: sanitize_filename is idempotent: sanitizing its output again gives
\* the same output, for every input.
C39_SanitizeIdempotent ==
    safe_filename.returned => sanitize_filename(safe_filename.name) = safe_filename.name

\* C40: every driver opened by a Selenium function is quit before the call
\* returns, on every path; when the driver cannot be created the call
\* returns an empty list without raising.
C40_DriverQuitBeforeReturn ==
    /\ browser.pc = "returned" => drivers # "open"
    /\ (browser.pc = "returned" /\ drivers = "none") =>
          (browser.result = "list" /\ browser.found = 0)
    /\ drivers = "open" => browser.pc \in {"get", "elements", "finally"}

\* A call that went through three elements, one of them raising, returned
\* its links with the driver quit.
C40_Witness ==
    /\ browser.pc = "returned" /\ drivers = "quit" /\ browser.result = "list"
    /\ Len(browser.elements) = 3 /\ browser.k = 4 /\ browser.found = 2
    /\ \E k \in DOMAIN browser.elements : browser.elements[k] = "raises"

====
